---- MODULE Spec2Model ----
(***************************************************************************)
(* html-webpack-inline-source-plugin (src/index.js).                        *)
(*                                                                         *)
(* Text is a sequence of tokens.  A token is one special character ("/",   *)
(* ".", "*", "<", " ", ...) or a run of letters ("app", "js", "script").   *)
(* Paths, URLs, patterns and artifact contents are all text, so the path   *)
(* functions, the regular expressions and the replacements of the code are *)
(* computed on the characters that matter to them.                         *)
(***************************************************************************)
EXTENDS Integers, Sequences, FiniteSets, TLC

VARIABLES compilation, cwd, call, result

vars == <<compilation, cwd, call, result>>

-----------------------------------------------------------------------------
(* Bounds of the model.                                                    *)

\* Most tags of one event (its meta, scripts and styles groups together).
MaxTags == 3

-----------------------------------------------------------------------------
(* JavaScript values.                                                      *)

\* The value of a missing attribute; no text holds this token.
Undefined == <<"#undefined">>

\* String(v), as RegExp.prototype.test coerces its argument.
StringOf(v) == IF v = Undefined THEN <<"undefined">> ELSE v

\* An undefined object (a lookup that found nothing).
UndefinedObject == [undefined |-> TRUE]

\* A TypeError raised by a call that returns a tag or an event; the model does
\* not tell the messages apart.
TypeError == [raised |-> "TypeError"]

\* A TypeError raised by a call that returns text.
Thrown == <<"#TypeError">>

-----------------------------------------------------------------------------
(* Text helpers.                                                           *)

StartsWith(s, p) == Len(s) >= Len(p) /\ SubSeq(s, 1, Len(p)) = p

\* p occurs in s at position i.
OccursAt(s, p, i) == i >= 1 /\ i + Len(p) - 1 <= Len(s) /\ SubSeq(s, i, i + Len(p) - 1) = p

Contains(s, p) == \E i \in 1..(Len(s) + 1) : OccursAt(s, p, i)

IsSpace(c) == c \in {" ", "\n", "\t"}

\* The parts of s between the "/" characters (empty parts included).
RECURSIVE SplitAcc(_, _)
SplitAcc(s, cur) ==
  IF s = <<>> THEN <<cur>>
  ELSE IF Head(s) = "/" THEN <<cur>> \o SplitAcc(Tail(s), <<>>)
  ELSE SplitAcc(Tail(s), Append(cur, Head(s)))

Split(s) == SplitAcc(s, <<>>)

\* The parts joined with "/".
RECURSIVE JoinSegs(_)
JoinSegs(segs) ==
  IF segs = <<>> THEN <<>>
  ELSE IF Len(segs) = 1 THEN segs[1]
  ELSE segs[1] \o <<"/">> \o JoinSegs(Tail(segs))

Dot == <<".">>
DotDot == <<".", ".">>

-----------------------------------------------------------------------------
(* Node's path.posix, as the code calls it.                                *)

\* normalizeString: drops empty and "." parts, resolves ".." parts.
RECURSIVE NormalizeSegs(_, _, _)
NormalizeSegs(segs, acc, allowAboveRoot) ==
  IF segs = <<>> THEN acc
  ELSE LET seg == Head(segs)
           rest == Tail(segs)
       IN IF seg = <<>> \/ seg = Dot THEN NormalizeSegs(rest, acc, allowAboveRoot)
          ELSE IF seg = DotDot
            THEN IF acc # <<>> /\ acc[Len(acc)] # DotDot
                   THEN NormalizeSegs(rest, SubSeq(acc, 1, Len(acc) - 1), allowAboveRoot)
                 ELSE IF allowAboveRoot
                   THEN NormalizeSegs(rest, Append(acc, DotDot), allowAboveRoot)
                 ELSE NormalizeSegs(rest, acc, allowAboveRoot)
          ELSE NormalizeSegs(rest, Append(acc, seg), allowAboveRoot)

NormalizeString(p, allowAboveRoot) == JoinSegs(NormalizeSegs(Split(p), <<>>, allowAboveRoot))

IsAbsolute(p) == Len(p) > 0 /\ p[1] = "/"

\* The result of path.posix.normalize(p) for a non-empty p whose parts
\* normalize to n.
NormalizedPath(p, n) ==
  IF n = <<>>
    THEN IF IsAbsolute(p) THEN <<"/">> ELSE IF p[Len(p)] = "/" THEN <<".", "/">> ELSE Dot
  ELSE (IF IsAbsolute(p) THEN <<"/">> ELSE <<>>) \o n
       \o (IF p[Len(p)] = "/" THEN <<"/">> ELSE <<>>)

\* path.posix.normalize
PathNormalize(p) ==
  IF p = <<>> THEN Dot ELSE NormalizedPath(p, NormalizeString(p, ~IsAbsolute(p)))

\* path.posix.join(a, b): a TypeError for an argument that is no string; the
\* non-empty arguments, joined with "/", are normalized ("." when none).
PathJoin(a, b) ==
  IF a = Undefined \/ b = Undefined THEN Thrown
  ELSE PathNormalize(IF a = <<>> THEN b ELSE IF b = <<>> THEN a ELSE a \o <<"/">> \o b)

\* path.posix.resolve(p) of one argument, against the working directory.
PathResolve(wd, p) ==
  <<"/">> \o NormalizeString(IF IsAbsolute(p) THEN p
                             ELSE IF p = <<>> THEN wd
                             ELSE wd \o <<"/">> \o p, FALSE)

\* Length of the longest common prefix of two sequences of parts.
RECURSIVE CommonLen(_, _)
CommonLen(a, b) ==
  IF a = <<>> \/ b = <<>> \/ Head(a) # Head(b) THEN 0
  ELSE 1 + CommonLen(Tail(a), Tail(b))

\* The path from the directory of parts f to the path of parts t: one ".."
\* for every part of f after the common prefix, then the rest of t.
RelativeSegs(f, t) ==
  [i \in 1..(Len(f) - CommonLen(f, t)) |-> DotDot] \o SubSeq(t, CommonLen(f, t) + 1, Len(t))

\* The non-empty parts of an absolute, normalized path.
PartsOf(p) == SelectSeq(Split(p), LAMBDA seg : seg # <<>>)

\* path.posix.relative(from, to)
PathRelative(wd, from, to) ==
  IF from = Undefined \/ to = Undefined THEN Thrown
  ELSE IF from = to THEN <<>>
  ELSE JoinSegs(RelativeSegs(PartsOf(PathResolve(wd, from)), PartsOf(PathResolve(wd, to))))

\* Index of the last character of p that is not a trailing "/" (0 if none).
RECURSIVE TrimEnd(_, _)
TrimEnd(p, i) == IF i >= 1 /\ p[i] = "/" THEN TrimEnd(p, i - 1) ELSE i

\* Index of the last "/" of p at or before i (0 if none).
RECURSIVE LastSlash(_, _)
LastSlash(p, i) == IF i >= 1 /\ p[i] # "/" THEN LastSlash(p, i - 1) ELSE i

\* path.posix.dirname
PathDirname(p) ==
  IF p = <<>> THEN Dot
  ELSE LET e == TrimEnd(p, Len(p))
           s == LastSlash(p, e)
       IN IF e = 0 \/ s <= 1 THEN (IF p[1] = "/" THEN <<"/">> ELSE Dot)
          ELSE IF p[1] = "/" /\ s = 2 THEN <<"/", "/">>
          ELSE SubSeq(p, 1, s - 1)

\* path.basename
PathBasename(p) ==
  LET e == TrimEnd(p, Len(p))
      s == LastSlash(p, e)
  IN SubSeq(p, s + 1, e)

\* slash(p): backslashes become forward slashes.
slash(p) == [i \in 1..Len(p) |-> IF p[i] = "\\" THEN "/" ELSE p[i]]

-----------------------------------------------------------------------------
(* The regular expressions of the code.                                    *)

\* new RegExp(regexStr).test(v), for the patterns the model draws: the empty
\* pattern and ".*" match every text, a pattern of letters matches the texts
\* that contain it.  The argument is coerced to a string first.
RegExpTest(regexStr, v) ==
  IF regexStr = <<".", "*">> THEN TRUE ELSE Contains(StringOf(v), regexStr)

\* No match of sourceMapUrl.getFrom (null).
Null == <<"#null">>

IsUrlChar(c) == ~IsSpace(c) /\ c \notin {"'", "\""}

\* First index at or after i of s that holds no white space.
RECURSIVE SkipSpace(_, _)
SkipSpace(s, i) == IF i <= Len(s) /\ IsSpace(s[i]) THEN SkipSpace(s, i + 1) ELSE i

\* First index at or after i of s that holds no character of a URL.
RECURSIVE SkipUrl(_, _)
SkipUrl(s, i) == IF i <= Len(s) /\ IsUrlChar(s[i]) THEN SkipUrl(s, i + 1) ELSE i

\* [#@] sourceMappingURL= at position i.
InnerAt(s, i) ==
  /\ i + 3 <= Len(s)
  /\ s[i] \in {"#", "@"}
  /\ s[i + 1] = " "
  /\ s[i + 2] = "sourceMappingURL"
  /\ s[i + 3] = "="

\* "*/" at position i, after optional white space.
ClosesAt(s, i) ==
  LET j == SkipSpace(s, i) IN j + 1 <= Len(s) /\ s[j] = "*" /\ s[j + 1] = "/"

Min(S) == CHOOSE x \in S : \A y \in S : x <= y
Max(S) == CHOOSE x \in S : \A y \in S : y <= x

\* A span <<first, last>> of a text, or <<>> for no match.
SpanText(s, span) == SubSeq(s, span[1], span[2])

\* The URL of a line comment //# sourceMappingURL=<url> that starts at i, as a
\* span, or <<>> when no such comment starts at i.
LineUrlAt(s, i) ==
  IF i + 1 <= Len(s) /\ s[i] = "/" /\ s[i + 1] = "/" /\ InnerAt(s, i + 2)
    THEN <<i + 6, SkipUrl(s, i + 6) - 1>>
  ELSE <<>>

\* Where [#@] sourceMappingURL= may start in a block comment that starts at i:
\* right after "/*", or after white space that ends a line (w is the first
\* index after the white space), or after a "//" that follows it.
BlockStarts(s, i, w) ==
  {i + 2} \cup (IF w > i + 2 /\ s[w - 1] = "\n" THEN {w} ELSE {})
          \cup (IF w > i + 2 /\ s[w - 1] = "\n" /\ w + 1 <= Len(s) /\ s[w] = "/" /\ s[w + 1] = "/"
                  THEN {w + 2} ELSE {})

\* The URL that starts at first and ends before the latest of the ends.
SpanTo(first, ends) == IF ends = {} THEN <<>> ELSE <<first, Max(ends) - 1>>

\* The URL of a block comment whose [#@] sourceMappingURL= starts at one of
\* inner: the longest run of URL characters that the closing "*/" can follow.
BlockUrlFrom(s, inner) ==
  IF inner = {} THEN <<>>
  ELSE SpanTo(Min(inner) + 4,
              {c \in (Min(inner) + 4)..SkipUrl(s, Min(inner) + 4) : ClosesAt(s, c)})

\* The URL of a block comment /*# sourceMappingURL=<url> */ that starts at i.
BlockUrlAt(s, i) ==
  IF i + 1 <= Len(s) /\ s[i] = "/" /\ s[i + 1] = "*"
    THEN BlockUrlFrom(s, {j \in BlockStarts(s, i, SkipSpace(s, i + 2)) : InnerAt(s, j)})
  ELSE <<>>

UrlAt(s, i) ==
  IF i + 1 <= Len(s) /\ s[i + 1] = "*" THEN BlockUrlAt(s, i) ELSE LineUrlAt(s, i)

\* The URL of the comment at the first of the hits (null when there is none).
FirstUrl(code, hits) ==
  IF hits = {} THEN Null ELSE SpanText(code, UrlAt(code, Min(hits)))

\* sourceMapUrl.getFrom(code): the URL of the first sourceMappingURL comment of
\* the code, "" when that URL is empty, null when there is no such comment.
getFrom(code) == FirstUrl(code, {i \in 1..Len(code) : UrlAt(code, i) # <<>>})

\* (\s*(?:\*/)?\s*$) matches all of t.
IsTrailer(t) ==
  SkipSpace(t, IF ClosesAt(t, 1) THEN SkipSpace(t, 1) + 2 ELSE SkipSpace(t, 1)) = Len(t) + 1

\* The source with the URL at the first of the hits replaced.
ReplaceAt(source, url, corrected, hits) ==
  IF hits = {} THEN source
  ELSE SubSeq(source, 1, Min(hits) - 1) \o corrected
       \o SubSeq(source, Min(hits) + Len(url), Len(source))

\* source.replace(new RegExp(escapeRegex(url) + '(\\s*(?:\\*/)?\\s*$)'),
\*                function (match, group) { return corrected + group; })
ReplaceTrailingUrl(source, url, corrected) ==
  ReplaceAt(source, url, corrected,
            {i \in 1..Len(source) :
               /\ OccursAt(source, url, i)
               /\ IsTrailer(SubSeq(source, i + Len(url), Len(source)))})

LessThan == "<"
EscapedLessThan == "\\x3C"
CloseScript == <<"/", "script", ">">>

\* The replacement without the g flag: only the first closing tag is escaped.
EscapeFirstCloseScript(s) ==
  [i \in 1..Len(s) |->
     IF /\ s[i] = LessThan
        /\ OccursAt(s, CloseScript, i + 1)
        /\ \A j \in 1..(i - 1) : ~(s[j] = LessThan /\ OccursAt(s, CloseScript, j + 1))
       THEN EscapedLessThan ELSE s[i]]

\* updatedSource.replace(/(<)(\/script>)/g, '\\x3C$2')
EscapeCloseScript(s) ==
  [i \in 1..Len(s) |->
     IF s[i] = LessThan /\ OccursAt(s, CloseScript, i + 1) THEN EscapedLessThan ELSE s[i]]

-----------------------------------------------------------------------------
(* The plugin.                                                             *)

PluginName == <<"html-webpack-inline-source-plugin">>

Auto == <<"auto">>

\* The public path with the 'auto' sentinel taken for a path.
PublicPathIgnoringAuto(out) == slash(out.publicPath)

\* out.publicPath === 'auto' ? '' : slash(out.publicPath) || ''
PublicPathOf(out) == IF out.publicPath = Auto THEN <<>> ELSE slash(out.publicPath)

\* tag.attributes[name]
Attr(tag, name) ==
  IF name \in DOMAIN tag.attributes THEN tag.attributes[name] ELSE Undefined

\* assets[key]
AssetAt(assets, key) ==
  IF \E i \in 1..Len(assets) : assets[i].key = key
    THEN assets[CHOOSE i \in 1..Len(assets) : assets[i].key = key].asset
  ELSE UndefinedObject

\* The result of getAssetByName, given the `asset` of the exact lookup and the
\* indexes of the keys whose path relative to the public path is the name.  The
\* loop returns the variable `asset` too, which is undefined when it runs.
AssetInfoOf(assets, assetName, asset, hits) ==
  IF asset # UndefinedObject THEN [asset |-> asset, assetName |-> assetName]
  ELSE IF hits = {} THEN UndefinedObject
  ELSE [asset |-> asset, assetName |-> assets[Min(hits)].key]

\* getAssetByName(assets, assetName, publicPath)
getAssetByName(wd, assets, assetName, publicPath) ==
  AssetInfoOf(assets, assetName, AssetAt(assets, assetName),
              {i \in 1..Len(assets) : PathRelative(wd, publicPath, assets[i].key) = assetName})

\* publicPath ? path.posix.join(publicPath, mapPathRelative) : mapPathRelative
PrefixPublicPath(publicPath, mapPathRelative) ==
  IF publicPath # <<>> THEN PathJoin(publicPath, mapPathRelative) ELSE mapPathRelative

\* The corrected source-map URL of resolveSourceMaps (lines 60-70).
mapUrlCorrected(wd, out, assetName, mapUrlOriginal) ==
  LET rootPath == slash(out.path)
      assetPath == PathJoin(rootPath, assetName)
      assetDir == PathDirname(assetPath)
      mapPath == PathJoin(assetDir, mapUrlOriginal)
  IN PrefixPublicPath(PublicPathOf(out), PathRelative(wd, slash(out.path), mapPath))

\* The same without the test for a URL that starts at the site root.
RewriteRootUrlToo(comp, wd, source, assetName, mapUrlOriginal) ==
  IF \/ mapUrlOriginal = Null
     \/ mapUrlOriginal = <<>>
     \/ StartsWith(mapUrlOriginal, <<"data", ":">>)
    THEN source
  ELSE ReplaceTrailingUrl(source, mapUrlOriginal,
                          mapUrlCorrected(wd, comp.outputOptions, assetName, mapUrlOriginal))

\* resolveSourceMaps from line 56 on, given the URL that getFrom returned.
RewriteSourceMapUrl(comp, wd, source, assetName, mapUrlOriginal) ==
  IF \/ mapUrlOriginal = Null
     \/ mapUrlOriginal = <<>>
     \/ StartsWith(mapUrlOriginal, <<"data", ":">>)
     \/ StartsWith(mapUrlOriginal, <<"/">>)
    THEN source
  ELSE ReplaceTrailingUrl(source, mapUrlOriginal,
                          mapUrlCorrected(wd, comp.outputOptions, assetName, mapUrlOriginal))

\* HtmlWebpackInlineSourcePlugin.prototype.resolveSourceMaps
resolveSourceMaps(comp, wd, assetInfo) ==
  IF assetInfo.asset = UndefinedObject THEN Thrown
  ELSE RewriteSourceMapUrl(comp, wd, assetInfo.asset.source, assetInfo.assetName,
                           getFrom(assetInfo.asset.source))

\* The asset URL of processTag after line 93.
AssetUrlOf(assetUrl, filename) ==
  IF PathBasename(filename) # filename
    THEN PathJoin(slash(PathBasename(filename)), assetUrl)
  ELSE assetUrl

\* path.posix.relative(publicPath, assetUrl), or the TypeError of line 93.
StripPublicPath(wd, publicPath, assetUrl) ==
  IF assetUrl = Thrown THEN Thrown ELSE PathRelative(wd, publicPath, assetUrl)

\* The asset name of processTag (lines 92-97).
AssetNameOf(wd, out, assetUrl, filename) ==
  StripPublicPath(wd, PublicPathOf(out), AssetUrlOf(assetUrl, filename))

\* The replacement tag of processTag (lines 102-108).
InlinedTag(tag, updatedSource) ==
  [tagName |-> IF tag.tagName = "script" THEN "script" ELSE "style",
   closeTag |-> TRUE,
   attributes |-> [type |-> IF tag.tagName = "script"
                              THEN <<"text", "/", "javascript">>
                            ELSE <<"text", "/", "css">>],
   innerHTML |-> IF tag.tagName = "script" THEN EscapeCloseScript(updatedSource)
                 ELSE updatedSource,
   meta |-> [plugin |-> PluginName]]

\* processTag from line 102 on.
InlineSource(tag, updatedSource) ==
  IF updatedSource = Thrown THEN TypeError ELSE InlinedTag(tag, updatedSource)

\* processTag from line 99 on.
InlineAsset(comp, wd, tag, assetInfo) ==
  IF assetInfo = UndefinedObject THEN tag
  ELSE InlineSource(tag, resolveSourceMaps(comp, wd, assetInfo))

\* processTag from line 98 on.
InlineNamed(comp, wd, tag, assetName) ==
  IF assetName = Thrown THEN TypeError
  ELSE InlineAsset(comp, wd, tag,
                   getAssetByName(wd, comp.assets, assetName, PublicPathOf(comp.outputOptions)))

\* HtmlWebpackInlineSourcePlugin.prototype.processTag
processTag(comp, wd, regex, tag, filename) ==
  IF tag.tagName = "script" /\ RegExpTest(regex, Attr(tag, "src"))
    THEN InlineNamed(comp, wd, tag,
                     AssetNameOf(wd, comp.outputOptions, Attr(tag, "src"), filename))
  ELSE IF tag.tagName = "link" /\ RegExpTest(regex, Attr(tag, "href"))
    THEN InlineNamed(comp, wd, tag,
                     AssetNameOf(wd, comp.outputOptions, Attr(tag, "href"), filename))
  ELSE tag

\* tags.map(function (tag) { return self.processTag(...); })
MapProcessTag(comp, wd, regex, tags, filename) ==
  [i \in 1..Len(tags) |-> processTag(comp, wd, regex, tags[i], filename)]

TagGroups == {"meta", "scripts", "styles"}

\* The result of processTags, given the mapped groups: the exception of the
\* first call that raised, or a copy of the event with the new tag groups.
ProcessedEvent(pluginData, mapped) ==
  IF \E g \in TagGroups : \E i \in 1..Len(mapped[g]) : mapped[g][i] = TypeError
    THEN TypeError
  ELSE [pluginData EXCEPT !.assetTags =
          [meta |-> mapped["meta"], scripts |-> mapped["scripts"], styles |-> mapped["styles"]]]

\* HtmlWebpackInlineSourcePlugin.prototype.processTags
processTags(comp, wd, regexStr, pluginData) ==
  ProcessedEvent(pluginData,
    [g \in TagGroups |->
       MapProcessTag(comp, wd, regexStr, pluginData.assetTags[g],
                     pluginData.plugin.options.filename)])

\* A test for a missing option only: the empty pattern passes it.
MissingOnly(v) == v = Undefined

\* !htmlPluginData.plugin.options.inlineSource
Falsy(v) == v = Undefined \/ v = <<>>

\* The function tapped on hooks.alterAssetTags.
AlterAssetTagsHook(comp, wd, htmlPluginData) ==
  IF Falsy(htmlPluginData.plugin.options.inlineSource) THEN htmlPluginData
  ELSE processTags(comp, wd, htmlPluginData.plugin.options.inlineSource, htmlPluginData)

-----------------------------------------------------------------------------
(* The values the model draws.                                             *)

SeqsUpTo(S, n) == UNION {[1..k -> S] : k \in 0..n}

BundleJs == <<"bundle", ".", "js">>
MainCss == <<"main", ".", "css">>
SubBundleJs == <<"sub", "/">> \o BundleJs
Static == <<"/", "static", "/">>
IndexHtml == <<"index", ".", "html">>
SubIndexHtml == <<"sub", "/">> \o IndexHtml

\* Source-map references.
FooJsMap == <<"foo", ".", "js", ".", "map">>
UpMapsFooMap == <<".", ".", "/", "maps", "/", "foo", ".", "map">>
DataUri == <<"data", ":", "application", "/", "json", ";", "base64", ",", "e30">>
AbsPathMap == <<"/", "abs", "/", "path", ".", "map">>

RelativeUrls == {FooJsMap, UpMapsFooMap}
Urls == RelativeUrls \cup {DataUri, AbsPathMap, <<>>}

\* The text before the URL of a sourceMappingURL comment, by style.
CommentStyles == {"line", "block"}
CommentOpen(style) ==
  IF style = "line" THEN <<"/", "/", "#", " ", "sourceMappingURL", "=">>
  ELSE <<"/", "*", "#", " ", "sourceMappingURL", "=">>

\* The text after the URL: white space, and the closer of a block comment.
Trailers(style) ==
  IF style = "line" THEN {<<>>, <<"\n">>}
  ELSE {<<"*", "/">>, <<" ", "*", "/", "\n">>}

\* Code with two closing script tags in it, and code with none.
CodeWithCloseScript ==
  <<"a", "<", "/", "script", ">", "<", "b", ">", "<", "/", "script", ">", ";", "\n">>
PlainCode == <<"body", "{", "}", "\n">>
\* Code that names its map file in a string.
CodeNamingMap == <<"m", "=", "'", "foo", ".", "js", ".", "map", "'", ";", "\n">>
Codes == {CodeWithCloseScript, PlainCode, CodeNamingMap}

\* An artifact content: code, then a sourceMappingURL comment.
SourceOf(code, style, url, trailer) == code \o CommentOpen(style) \o url \o trailer

SourceParts ==
  {p \in [code : Codes, style : CommentStyles, url : Urls, trailer : {<<>>, <<"\n">>, <<"*", "/">>, <<" ", "*", "/", "\n">>}] :
     p.trailer \in Trailers(p.style)}

Sources == Codes \cup {SourceOf(p.code, p.style, p.url, p.trailer) : p \in SourceParts}

Asset(source) == [source |-> source]

\* compilation.assets, in the order of insertion.
AssetsPlain ==
  << [key |-> BundleJs, asset |-> Asset(SourceOf(CodeWithCloseScript, "line", FooJsMap, <<"\n">>))],
     [key |-> MainCss, asset |-> Asset(SourceOf(CodeWithCloseScript, "block", UpMapsFooMap, <<" ", "*", "/", "\n">>))],
     [key |-> SubBundleJs, asset |-> Asset(SourceOf(PlainCode, "line", UpMapsFooMap, <<>>))] >>

\* Assets stored under keys that carry the public path.
AssetsPrefixed ==
  << [key |-> Static \o BundleJs, asset |-> Asset(SourceOf(PlainCode, "line", FooJsMap, <<>>))],
     [key |-> Static \o MainCss, asset |-> Asset(PlainCode)] >>

\* Assets stored under keys that start with "./".
AssetsDotted ==
  << [key |-> <<".", "/">> \o BundleJs, asset |-> Asset(SourceOf(CodeWithCloseScript, "line", FooJsMap, <<>>))],
     [key |-> <<".", "/">> \o MainCss, asset |-> Asset(PlainCode)] >>

AssetSets == {AssetsPlain, AssetsPrefixed, AssetsDotted}
PublicPaths == {<<>>, Auto, Static}
OutputPath == <<"/", "dist">>
WorkingDirectory == <<"/", "work">>

\* Assets under plain names with every public path, assets under prefixed keys
\* with the public path that prefixes them, assets under "./" keys with none.
Compilations ==
  {c \in [assets : AssetSets,
          outputOptions : [path : {OutputPath}, publicPath : PublicPaths]] :
     /\ c.assets = AssetsPrefixed => c.outputOptions.publicPath = Static
     /\ c.assets = AssetsDotted => c.outputOptions.publicPath = <<>>}

AssetNames == {BundleJs, SubBundleJs, Static \o BundleJs}

ScriptTag(src) == [tagName |-> "script", voidTag |-> FALSE, attributes |-> [src |-> src]]
LinkTag(href) ==
  [tagName |-> "link", voidTag |-> TRUE, attributes |-> [href |-> href, rel |-> <<"stylesheet">>]]
\* A script with no src.
InlineScript ==
  [tagName |-> "script", voidTag |-> FALSE,
   attributes |-> [type |-> <<"text", "/", "javascript">>], innerHTML |-> PlainCode]
MetaTag ==
  [tagName |-> "meta", voidTag |-> TRUE,
   attributes |-> [name |-> <<"viewport">>, content |-> <<"width">>]]

ScriptTags == {ScriptTag(BundleJs), ScriptTag(Static \o BundleJs), InlineScript}
LinkTags == {LinkTag(MainCss), LinkTag(Static \o MainCss)}
MetaTags == {MetaTag}
Tags == ScriptTags \cup LinkTags \cup MetaTags

\* Patterns: every asset, the scripts only.
Patterns == {<<".", "*">>, <<"js">>}
\* options.inlineSource: absent, empty, or a pattern.
InlineSources == {Undefined, <<>>} \cup Patterns
Filenames == {IndexHtml, SubIndexHtml}

PluginData(inlineSource, filename, meta, scripts, styles) ==
  [assetTags |-> [meta |-> meta, scripts |-> scripts, styles |-> styles],
   outputName |-> filename,
   plugin |-> [options |-> [inlineSource |-> inlineSource, filename |-> filename]]]

TagGroupsUpTo(n) ==
  {g \in [meta : SeqsUpTo(MetaTags, n), scripts : SeqsUpTo(ScriptTags, n),
          styles : SeqsUpTo(LinkTags, n)] :
     Len(g.meta) + Len(g.scripts) + Len(g.styles) <= n}

Events(inlineSources) ==
  {PluginData(r, f, g.meta, g.scripts, g.styles) :
     r \in inlineSources, f \in Filenames, g \in TagGroupsUpTo(MaxTags)}

-----------------------------------------------------------------------------
(* The state machine: a compilation, and the calls made on the plugin, one  *)
(* at a time (the plugin runs synchronously inside the host's hook).       *)

Init ==
  /\ compilation \in Compilations
  /\ cwd = WorkingDirectory
  /\ call = [op |-> "none"]
  /\ result = UndefinedObject

\* html-webpack-plugin calls the alterAssetTags hook for an HTML file.
AlterAssetTags ==
  \E htmlPluginData \in Events(InlineSources) :
    /\ call.op = "none"
    /\ call' = [op |-> "alterAssetTags", pluginData |-> htmlPluginData]
    /\ result' = AlterAssetTagsHook(compilation, cwd, htmlPluginData)
    /\ UNCHANGED <<compilation, cwd>>

\* processTags(compilation, regexStr, pluginData)
CallProcessTags ==
  \E regexStr \in Patterns \cup {<<>>}, pluginData \in Events({Undefined}) :
    /\ call.op = "none"
    /\ call' = [op |-> "processTags", regexStr |-> regexStr, pluginData |-> pluginData]
    /\ result' = processTags(compilation, cwd, regexStr, pluginData)
    /\ UNCHANGED <<compilation, cwd>>

\* processTag(compilation, regex, tag, filename)
CallProcessTag ==
  \E regex \in Patterns \cup {<<>>}, tag \in Tags, filename \in Filenames :
    /\ call.op = "none"
    /\ call' = [op |-> "processTag", regex |-> regex, tag |-> tag, filename |-> filename]
    /\ result' = processTag(compilation, cwd, regex, tag, filename)
    /\ UNCHANGED <<compilation, cwd>>

\* resolveSourceMaps(compilation, assetInfo)
CallResolveSourceMaps ==
  \E source \in Sources, assetName \in AssetNames :
    /\ call.op = "none"
    /\ call' = [op |-> "resolveSourceMaps",
                assetInfo |-> [asset |-> Asset(source), assetName |-> assetName]]
    /\ result' = resolveSourceMaps(compilation, cwd, call'.assetInfo)
    /\ UNCHANGED <<compilation, cwd>>

\* getAssetByName(assets, assetName, publicPath)
CallGetAssetByName ==
  \E url \in {t.attributes.src : t \in {ScriptTag(BundleJs), ScriptTag(Static \o BundleJs)}}
             \cup {t.attributes.href : t \in LinkTags},
     filename \in Filenames :
    /\ call.op = "none"
    /\ call' = [op |-> "getAssetByName",
                assetName |-> AssetNameOf(cwd, compilation.outputOptions, url, filename),
                publicPath |-> PublicPathOf(compilation.outputOptions)]
    /\ result' = getAssetByName(cwd, compilation.assets, call'.assetName, call'.publicPath)
    /\ UNCHANGED <<compilation, cwd>>

\* The call returns to its caller; the plugin keeps nothing of it.
Return ==
  /\ call.op # "none"
  /\ call' = [op |-> "none"]
  /\ result' = UndefinedObject
  /\ UNCHANGED <<compilation, cwd>>

Next ==
  \/ AlterAssetTags
  \/ CallProcessTags
  \/ CallProcessTag
  \/ CallResolveSourceMaps
  \/ CallGetAssetByName
  \/ Return

Spec == Init /\ [][Next]_vars

-----------------------------------------------------------------------------
(* What the specification says, in terms of the calls and their results.   *)

\* The attribute that holds the asset reference of a tag.
RefAttr(tag) == IF tag.tagName = "script" THEN "src" ELSE "href"

\* The tag is a script or a link whose reference matches the pattern.
Eligible(regex, tag) ==
  tag.tagName \in {"script", "link"} /\ RegExpTest(regex, Attr(tag, RefAttr(tag)))

\* The lookup of section 4.3: the exact key, else the first key whose path
\* relative to the public path is the name, with that key's artifact.
Lookup(wd, assets, assetName, publicPath) ==
  IF \E i \in 1..Len(assets) : assets[i].key = assetName
    THEN [asset |-> AssetAt(assets, assetName), assetName |-> assetName]
  ELSE IF \E i \in 1..Len(assets) : PathRelative(wd, publicPath, assets[i].key) = assetName
    THEN LET k == Min({i \in 1..Len(assets) :
                         PathRelative(wd, publicPath, assets[i].key) = assetName})
         IN [asset |-> assets[k].asset, assetName |-> assets[k].key]
  ELSE UndefinedObject

\* The artifact of the tag of a processTag call, by the lookup of section 4.3.
FoundFor(c) ==
  Lookup(cwd, compilation.assets,
         AssetNameOf(cwd, compilation.outputOptions, Attr(c.tag, RefAttr(c.tag)), c.filename),
         PublicPathOf(compilation.outputOptions))

\* r is a replacement produced for the tag.
IsReplacementOf(r, tag) ==
  /\ DOMAIN r = {"tagName", "closeTag", "attributes", "innerHTML", "meta"}
  /\ r.meta = [plugin |-> PluginName]
  /\ r.tagName = (IF tag.tagName = "script" THEN "script" ELSE "style")

\* C1: processTags returns three tag sequences, each as long as its input
\* group, and position i of each holds the input tag at i or the replacement
\* produced for it: no tag is dropped, added or reordered.
ProcessTagsKeepsLengthAndOrder ==
  call.op = "processTags" =>
    /\ result # TypeError
    /\ DOMAIN result.assetTags = TagGroups
    /\ \A g \in TagGroups :
         /\ Len(result.assetTags[g]) = Len(call.pluginData.assetTags[g])
         /\ \A i \in 1..Len(result.assetTags[g]) :
              \/ result.assetTags[g][i] = call.pluginData.assetTags[g][i]
              \/ IsReplacementOf(result.assetTags[g][i], call.pluginData.assetTags[g][i])

\* Some key of the assets other than the name has the name as its path relative
\* to the public path, and the name itself is no key.
OnlyRelativeKeyMatches(assets, assetName, publicPath) ==
  /\ \A i \in 1..Len(assets) : assets[i].key # assetName
  /\ \E i \in 1..Len(assets) : PathRelative(cwd, publicPath, assets[i].key) = assetName

\* C2: when the candidate name is no key of the artifact set but is the path of
\* some key relative to the public path, the lookup returns that key's artifact
\* with the key, and the tag is inlined with that artifact's content.
RelativeKeyLookupSucceeds ==
  /\ (call.op = "getAssetByName"
        /\ OnlyRelativeKeyMatches(compilation.assets, call.assetName, call.publicPath))
     => result = Lookup(cwd, compilation.assets, call.assetName, call.publicPath)
  /\ (call.op = "processTag" /\ Eligible(call.regex, call.tag)
        /\ Attr(call.tag, RefAttr(call.tag)) # Undefined
        /\ OnlyRelativeKeyMatches(compilation.assets,
             AssetNameOf(cwd, compilation.outputOptions,
                         Attr(call.tag, RefAttr(call.tag)), call.filename),
             PublicPathOf(compilation.outputOptions)))
     => /\ IsReplacementOf(result, call.tag)
        /\ result.innerHTML =
             (IF call.tag.tagName = "script"
                THEN EscapeCloseScript(resolveSourceMaps(compilation, cwd, FoundFor(call)))
              ELSE resolveSourceMaps(compilation, cwd, FoundFor(call)))

\* The asset reference as the specification resolves it: prefixed with the
\* directory of the HTML file when the file name has one.
ReferenceFromHtmlDirectory(filename, assetUrl) ==
  IF PathBasename(filename) # filename
    THEN PathJoin(PathDirname(filename), assetUrl)
  ELSE assetUrl

\* C3: the candidate artifact name is the tag's reference, prefixed with the
\* directory component of the HTML file name when it has one (sub/ for
\* sub/index.html) and used as is otherwise, with the public path stripped.
CandidateNameUsesHtmlDirectory ==
  (call.op = "processTag" /\ Eligible(call.regex, call.tag)
     /\ Attr(call.tag, RefAttr(call.tag)) # Undefined)
  => AssetNameOf(cwd, compilation.outputOptions,
                 Attr(call.tag, RefAttr(call.tag)), call.filename)
     = PathRelative(cwd, PublicPathOf(compilation.outputOptions),
                    ReferenceFromHtmlDirectory(call.filename, Attr(call.tag, RefAttr(call.tag))))

\* C4: processTag never raises: for every tag (a script without src
\* included), pattern and artifact set it returns the replacement or the tag.
ProcessTagNeverRaises ==
  call.op = "processTag" =>
    /\ result # TypeError
    /\ (result = call.tag \/ IsReplacementOf(result, call.tag))

\* C5: processTag returns the input tag itself unless the tag is a script or a
\* link, its reference attribute matches the pattern, and an artifact is found
\* for the resolved reference.
UnchangedUnlessInlinable ==
  call.op = "processTag" =>
    \/ result = call.tag
    \/ (Eligible(call.regex, call.tag) /\ FoundFor(call) # UndefinedObject)

\* C6: a link whose href matches and whose artifact is found is replaced by a
\* style descriptor with the closing-tag flag, the single attribute
\* type: text/css, the rewritten content as body and the producer marker; a
\* script replacement keeps the name script with type: text/javascript.
InlinedDescriptorShape ==
  (call.op = "processTag" /\ Eligible(call.regex, call.tag)
     /\ FoundFor(call) # UndefinedObject)
  => IF call.tag.tagName = "link"
       THEN result = [tagName |-> "style", closeTag |-> TRUE,
                      attributes |-> [type |-> <<"text", "/", "css">>],
                      innerHTML |-> resolveSourceMaps(compilation, cwd, FoundFor(call)),
                      meta |-> [plugin |-> PluginName]]
     ELSE /\ IsReplacementOf(result, call.tag)
          /\ result.tagName = "script"
          /\ result.closeTag
          /\ result.attributes = [type |-> <<"text", "/", "javascript">>]

\* The content that a processTag call inlines: the artifact of the tag, with
\* its source-map reference rewritten.
UpdatedSourceFor(c) == resolveSourceMaps(compilation, cwd, FoundFor(c))

\* "<" followed by "/script>" at position i.
CloseScriptAt(s, i) == s[i] = LessThan /\ OccursAt(s, CloseScript, i + 1)

\* The processTag call returned a replacement.
Inlined == call.op = "processTag" /\ result # TypeError /\ result # call.tag

\* C7: the body of an inlined script never contains </script>: the "<" of
\* each occurrence in the rewritten content is replaced by the escape \x3C and
\* every other character is kept; the body of an inlined style is the rewritten
\* content itself.
InlinedScriptBodyIsEscaped ==
  Inlined =>
    IF call.tag.tagName = "script"
      THEN /\ \A i \in 1..Len(result.innerHTML) : ~CloseScriptAt(result.innerHTML, i)
           /\ Len(result.innerHTML) = Len(UpdatedSourceFor(call))
           /\ \A i \in 1..Len(result.innerHTML) :
                result.innerHTML[i] =
                  (IF CloseScriptAt(UpdatedSourceFor(call), i) THEN EscapedLessThan
                   ELSE UpdatedSourceFor(call)[i])
    ELSE result.innerHTML = UpdatedSourceFor(call)

\* A script whose content holds two closing script tags was inlined, and both
\* are escaped in its body.
InlinedScriptWithTwoEscapes ==
  /\ Inlined
  /\ call.tag = ScriptTag(BundleJs)
  /\ Cardinality({i \in 1..Len(UpdatedSourceFor(call)) :
                    CloseScriptAt(UpdatedSourceFor(call), i)}) = 2
  /\ Cardinality({i \in 1..Len(result.innerHTML) :
                    result.innerHTML[i] = EscapedLessThan}) = 2

\* The parts of the content of a resolveSourceMaps call, when it is made of
\* code and one trailing comment.
PartsOfCall == {p \in SourceParts :
                  call.assetInfo.asset.source = SourceOf(p.code, p.style, p.url, p.trailer)}

\* C8: resolveSourceMaps returns the content as it is when the content has no
\* source-map reference, or the reference starts with data: or with "/",
\* whatever the public path.
UntouchedWithoutRelativeReference ==
  call.op = "resolveSourceMaps" =>
    /\ call.assetInfo.asset.source \in Codes => result = call.assetInfo.asset.source
    /\ \A p \in PartsOfCall :
         (p.url = <<>> \/ StartsWith(p.url, <<"data", ":">>) \/ StartsWith(p.url, <<"/">>))
           => result = call.assetInfo.asset.source

\* A content whose reference starts at the site root came back as it was, under
\* the automatic public path.
RootedReferenceReturned ==
  /\ call.op = "resolveSourceMaps"
  /\ compilation.outputOptions.publicPath = Auto
  /\ \E p \in PartsOfCall : p.url = AbsPathMap
  /\ result = call.assetInfo.asset.source

\* Where the map of the artifact lies from the output root /dist, for the
\* artifact names and the relative references of the model.
MapPathFromRoot(assetName, url) ==
  CASE assetName = BundleJs /\ url = FooJsMap -> FooJsMap
    [] assetName = BundleJs /\ url = UpMapsFooMap -> <<".", ".", "/", "maps", "/", "foo", ".", "map">>
    [] assetName = SubBundleJs /\ url = FooJsMap -> <<"sub", "/">> \o FooJsMap
    [] assetName = SubBundleJs /\ url = UpMapsFooMap -> <<"maps", "/", "foo", ".", "map">>
    [] assetName = Static \o BundleJs /\ url = FooJsMap -> <<"static", "/">> \o FooJsMap
    [] assetName = Static \o BundleJs /\ url = UpMapsFooMap -> <<"maps", "/", "foo", ".", "map">>

\* The reference after the rewrite: the path from the root, behind the public
\* path when one is configured (as a path: a leading ".." steps out of it).
ExpectedMapUrl(publicPath, mapPathFromRoot) ==
  IF publicPath \in {<<>>, Auto} THEN mapPathFromRoot
  ELSE IF StartsWith(mapPathFromRoot, <<".", ".", "/">>)
    THEN PathNormalize(publicPath \o mapPathFromRoot)
  ELSE publicPath \o mapPathFromRoot

DisabledHookPassesThrough ==
  (call.op = "alterAssetTags"
     /\ call.pluginData.plugin.options.inlineSource \in {Undefined, <<>>})
  => result = call.pluginData

\* The hook passed through an event, with the empty option, that processTags
\* would have changed.
InlinableEventPassedThrough ==
  /\ call.op = "alterAssetTags"
  /\ call.pluginData.plugin.options.inlineSource = <<>>
  /\ result = call.pluginData
  /\ \E i \in 1..Len(call.pluginData.assetTags.scripts) :
       /\ call.pluginData.assetTags.scripts[i] = ScriptTag(BundleJs)
       /\ processTag(compilation, cwd, <<>>, ScriptTag(BundleJs),
                     call.pluginData.plugin.options.filename)
          \notin {TypeError, ScriptTag(BundleJs)}

====
